---- MODULE Spec2Model ----
(***************************************************************************)
(* A model of make_wrappers.py: the generator of architecture-prefixed     *)
(* toolchain wrappers.  Strings are TLA+ strings; Python values that may   *)
(* be None are tagged records (PyStr, PyNone).  The filesystem under bin/  *)
(* is a function from file names to artifacts, the search path is the set  *)
(* of executable names found in its one directory.                         *)
(***************************************************************************)
EXTENDS Naturals, Sequences, FiniteSets, TLC

\* ------------------------------------------------------------------ bounds

\* The longest explicit tool list a run is given on the command line.
MaxTools == 2

\* ---------------------------------------------------------- Python values

PyNone == [type |-> "NoneType", s |-> ""]

PyStr(s) == [type |-> "str", s |-> s]

\* '%s' % value: None formats as the text None.
Fmt(v) == IF v = PyNone THEN "None" ELSE v.s

\* An attribute the argparse Namespace does not hold (yet).
NoAttr == [type |-> "unset"]

\* ---------------------------------------------------------------- strings

Char(s, i) == SubSeq(s, i, i)

StartsWith(s, p) == Len(s) >= Len(p) /\ SubSeq(s, 1, Len(p)) = p

EndsWith(s, p) == Len(s) >= Len(p) /\ SubSeq(s, Len(s) - Len(p) + 1, Len(s)) = p

Min(S) == CHOOSE i \in S : \A j \in S : i <= j

\* Where pat occurs in s.
Occurrences(s, pat) ==
    {i \in 1..Len(s) : i + Len(pat) - 1 <= Len(s) /\ SubSeq(s, i, i + Len(pat) - 1) = pat}

RECURSIVE ReplaceAll(_, _, _)
\* re.sub / str.replace of a literal, non-empty pattern: every non-overlapping
\* occurrence, leftmost first.
ReplaceAll(s, pat, repl) ==
    IF Occurrences(s, pat) = {} THEN s
    ELSE LET k == Min(Occurrences(s, pat)) IN
         SubSeq(s, 1, k - 1) \o repl
             \o ReplaceAll(SubSeq(s, k + Len(pat), Len(s)), pat, repl)

Digits == {"0", "1", "2", "3", "4", "5", "6", "7", "8", "9"}

\* The character class [0-9.]
DigitOrDot == Digits \cup {"."}

\* ------------------------------------------------------------------ tables

TOOLS ==
    << "accel-nvptx-none-gcc", "addr2line", "ar", "as", "c++filt", "cpp", "dwp",
       "elfedit", "g++", "gappletviewer", "gc-analyze", "gcc", "gcc-ar", "gcc-nm",
       "gcc-ranlib", "gccbrig", "gccgo", "gcj", "gcj-dbtool", "gcj-wrapper", "gcjh",
       "gcov", "gcov-dump", "gcov-tool", "gdc", "gfortran", "gij", "gjar",
       "gjarsigner", "gjavah", "gjdoc", "gkeytool", "gnat", "gnatbind", "gnatchop",
       "gnatclean", "gnatfind", "gnatgcc", "gnathtml", "gnative2ascii", "gnatkr",
       "gnatlink", "gnatls", "gnatmake", "gnatname", "gnatprep", "gnatxref", "go",
       "gofmt", "gold", "gorbd", "gprof", "grmic", "grmid", "grmiregistry",
       "gserialver", "gtnameserv", "jcf-dump", "jv-convert", "ld", "ld.bfd",
       "ld.gold", "nm", "objcopy", "objdump", "pkg-config", "ranlib", "readelf",
       "size", "strings", "strip" >>

BLACKLIST == {"accel-nvptx-none-gcc", "pkg-config"}

\* The rules of TOOL_FIXUPS, in order; re_sub gives each its pattern.
TOOL_FIXUPS == <<"tool_version", "tool_ld", "tool_gcc_binutils">>

\* The rules of ARCH_FIXUPS, in order.
ARCH_FIXUPS == <<"arch_pc", "arch_unknown", "arch_i386">>

\* FLAGS_INFO entries whose value is '' ("nothing needed").
FlagsNothingNeeded ==
    {"addr2line", "ar", "c++filt", "dwp", "elfedit", "gcc-ar", "gcc-nm",
     "gcc-ranlib", "nm", "objdump", "ranlib", "readelf", "size", "strings", "strip"}

\* FLAGS_INFO entries whose value is 'gcc_flags'.
FlagsGcc == {"cpp", "g++", "gcc", "gdc", "gfortran"}

\* FLAGS_INFO entries whose value is None ("untested, may cause problems").
FlagsUntested ==
    {"as", "gappletviewer", "gc-analyze", "gccbrig", "gccgo", "gcj", "gcj-dbtool",
     "gcj-wrapper", "gcjh", "gcov", "gcov-dump", "gcov-tool", "gij", "gjar",
     "gjarsigner", "gjavah", "gjdoc", "gkeytool", "gnat", "gnatbind", "gnatchop",
     "gnatclean", "gnatfind", "gnatgcc", "gnathtml", "gnative2ascii", "gnatkr",
     "gnatlink", "gnatls", "gnatmake", "gnatname", "gnatprep", "gnatxref", "go",
     "gofmt", "gorbd", "gprof", "grmic", "grmid", "grmiregistry", "gserialver",
     "gtnameserv", "jcf-dump", "jv-convert", "ld", "objcopy"}

FLAGS_INFO ==
    [t \in FlagsNothingNeeded \cup FlagsGcc \cup FlagsUntested |->
        IF t \in FlagsNothingNeeded THEN PyStr("")
        ELSE IF t \in FlagsGcc THEN PyStr("gcc_flags")
        ELSE PyNone]

\* FLAGS_INFO.get(tool): None for a key the table does not hold.
FLAGS_INFO_get(tool) == IF tool \in DOMAIN FLAGS_INFO THEN FLAGS_INFO[tool] ELSE PyNone

ARCHES ==
    [a \in {"i386-linux-gnu", "x86_64-linux-gnux32"} |->
        IF a = "i386-linux-gnu"
        THEN [wraps |-> "x86_64-linux-gnu", gcc_flags |-> "-m32"]
        ELSE [wraps |-> "x86_64-linux-gnu", gcc_flags |-> "-mx32"]]

\* ----------------------------------------------------------- pure functions

\* '-[0-9.]\+$': in Python's re, \+ is a literal plus sign, so the pattern is a
\* dash, ONE digit or dot, a plus sign, and the end of the string ($ also matches
\* just before a final newline).
SubToolVersion(s) ==
    LET n == Len(s) IN
    IF n >= 3 /\ Char(s, n - 2) = "-" /\ Char(s, n - 1) \in DigitOrDot /\ Char(s, n) = "+"
    THEN SubSeq(s, 1, n - 3)
    ELSE IF n >= 4 /\ Char(s, n) = "\n" /\ Char(s, n - 3) = "-"
            /\ Char(s, n - 2) \in DigitOrDot /\ Char(s, n - 1) = "+"
         THEN SubSeq(s, 1, n - 4) \o "\n"
         ELSE s

\* A match of an anchored pattern ^(...)$: s itself, or s without its final newline.
Anchored(s, words) ==
    s \in words \/ (EndsWith(s, "\n") /\ SubSeq(s, 1, Len(s) - 1) \in words)

\* The final newline an anchored match leaves in place.
Rest(s) == IF EndsWith(s, "\n") THEN "\n" ELSE ""

\* re.sub(pattern, repl, string) for each rule of the two fixup tables.
re_sub(rule, s) ==
    CASE rule = "tool_version" -> SubToolVersion(s)
      [] rule = "tool_ld" ->
            \* '^(gold|ld\.(bfd|gold))$' -> 'ld'
            IF Anchored(s, {"gold", "ld.bfd", "ld.gold"}) THEN "ld" \o Rest(s) ELSE s
      [] rule = "tool_gcc_binutils" ->
            \* '^gcc-(ar|nm|ranlib)$' -> group 1
            IF Anchored(s, {"gcc-ar", "gcc-nm", "gcc-ranlib"})
            THEN SubSeq(s, 5, Len(s))
            ELSE s
      [] rule = "arch_pc" -> ReplaceAll(s, "-pc-", "-")
      [] rule = "arch_unknown" -> ReplaceAll(s, "-unknown-", "-")
      [] rule = "arch_i386" ->
            \* '^i[456]86-' -> 'i386-'
            IF Len(s) >= 5 /\ Char(s, 1) = "i" /\ Char(s, 2) \in {"4", "5", "6"}
               /\ SubSeq(s, 3, 5) = "86-"
            THEN "i386-" \o SubSeq(s, 6, Len(s))
            ELSE s

RECURSIVE apply_fixups(_, _)
apply_fixups(string, fixups) ==
    IF fixups = <<>> THEN string
    ELSE apply_fixups(re_sub(Head(fixups), string), Tail(fixups))

safe_msg(tool) == "# tool \"" \o tool \o "\" is believed to be safe"

\* The characters pipes.quote leaves alone: [\w@%+=:,./-] (ASCII).
SafeChars ==
    Digits \cup
    {"a", "b", "c", "d", "e", "f", "g", "h", "i", "j", "k", "l", "m", "n", "o", "p",
     "q", "r", "s", "t", "u", "v", "w", "x", "y", "z",
     "A", "B", "C", "D", "E", "F", "G", "H", "I", "J", "K", "L", "M", "N", "O", "P",
     "Q", "R", "S", "T", "U", "V", "W", "X", "Y", "Z",
     "_", "@", "%", "+", "=", ":", ",", ".", "/", "-"}

pipes_quote(s) ==
    IF s = "" THEN "''"
    ELSE IF \A i \in 1..Len(s) : Char(s, i) \in SafeChars THEN s
    ELSE "'" \o ReplaceAll(s, "'", "'\"'\"'") \o "'"

\* The fixed feedback reference of the warning.
FeedbackRef == "Please report your results to https://github.com/o11c/toolchain-arch-wrappers"

warning_msg(tool) ==
    "echo " \o pipes_quote("Warning: untested tool \"" \o tool \o "\". " \o FeedbackRef)
        \o " >&2"

\* ------------------------------------------------------ filesystem and PATH

\* The one directory of the search path.
PathDir == "/usr/bin"

\* shutil.which(cmd): the full path of cmd in the search path, or None.
which(cmd, bin) == IF cmd \in bin THEN PyStr(PathDir \o "/" \o cmd) ELSE PyNone

\* Permission bits of a file open() creates: 0o666 under a umask of 0o022.
NewFileMode == {"ur", "uw", "gr", "or"}

\* 0o111
ExecBits == {"ux", "gx", "ox"}

Symlink(target) == [kind |-> "symlink", target |-> target, mode |-> {}, data |-> ""]

RegularFile(mode, data) == [kind |-> "file", target |-> "", mode |-> mode, data |-> data]

Put(f, k, v) == [x \in DOMAIN f \cup {k} |-> IF x = k THEN v ELSE f[x]]

\* A wrap_tool that forgot to remove the old artifact.
os_remove_skipped(f, filename) == f

\* try: os.remove(filename)  except FileNotFoundError: pass
os_remove(f, filename) == [x \in DOMAIN f \ {filename} |-> f[x]]

\* A return left in the try body: wrap_tool is over once a file was removed.
RemoveReturnsIfExisted(existed) == ~existed

\* Both the try body and the except clause fall through to the blacklist test:
\* no path through the try statement returns from wrap_tool.
RemoveFallsThrough(existed) == TRUE

\* -------------------------------------------------- wrap_tool's expressions

Filename(prefix, tool) == "bin/" \o prefix \o "-" \o tool

\* The reference built from the name after the fixups.
ExecutableOfCanonical(arch_info, tool) ==
    arch_info.wraps \o "-" \o apply_fixups(tool, TOOL_FIXUPS)

Executable(arch_info, tool) == arch_info.wraps \o "-" \o tool

\* flags = flags_var and config.arch_info[flags_var], for flags_var not None:
\* '' for '', the dict's value for a key it holds, KeyError otherwise.
ResolveFlags(flags_var, arch_info) ==
    IF flags_var = PyNone THEN [raised |-> "", flags |-> ""]
    ELSE IF flags_var.s = "" THEN [raised |-> "", flags |-> ""]
    ELSE IF flags_var.s \in DOMAIN arch_info
         THEN [raised |-> "", flags |-> arch_info[flags_var.s]]
         ELSE [raised |-> "KeyError", flags |-> ""]

\* Every tool acknowledged as safe, the untested ones too.
WarningLineAlwaysSafe(flags_var, tool) == safe_msg(tool)

\* The second line of a script; tool is wrap_tool's variable after the fixups.
WarningLine(flags_var, tool) ==
    IF flags_var # PyNone THEN safe_msg(tool) ELSE warning_msg(tool)

\* The test without its last conjunct: untested tools are linked too.
UseSymlinkUnclassified(symlinks, flags, flags_var) == symlinks /\ flags = ""

\* config.symlinks and not flags and flags_var is not None
UseSymlink(symlinks, flags, flags_var) == symlinks /\ flags = "" /\ flags_var # PyNone

ScriptText(warning, executable, flags) ==
    "#!/bin/sh\n" \o warning \o "\n" \o "exec " \o Fmt(executable) \o " " \o flags
        \o " \"$@\"\n"

\* An architecture the table does not hold wraps itself, without flags.
ResolveArchFallback(arch) ==
    IF arch \in DOMAIN ARCHES THEN ARCHES[arch]
    ELSE [wraps |-> arch, gcc_flags |-> ""]

\* ARCHES[config.arch], or the attribute left unset after the KeyError is caught.
ResolveArch(arch) == IF arch \in DOMAIN ARCHES THEN ARCHES[arch] ELSE NoAttr

\* config.tools or TOOLS
ToolList(tools) == IF tools = <<>> THEN TOOLS ELSE tools

\* ------------------------------------------------------------------- inputs

Range(q) == {q[i] : i \in 1..Len(q)}

ArchInputs == {"i686-pc-linux-gnu", "x86_64-unknown-linux-gnux32",
               "armv7a-unknown-linux-gnueabihf"}

ToolInputs == {"gcc", "gcc-ar", "gold", "pkg-config", "gcc-7.3.1", "pkg-config-0+"}

ToolLists == UNION {[1..n -> ToolInputs] : n \in 0..MaxTools}

\* The compilers among the tool names; the other names are binutils and the like.
CompilerTools == {"cpp", "g++", "gcc", "gcc-7.3.1", "gdc", "gfortran"}

\* What the environment may hold for the tools of a run: nothing, something for
\* every tool, for the compilers only, or for all but the compilers.
ToolSubsets(tools) ==
    {Range(ToolList(tools)) \cap S :
        S \in {{}, Range(TOOLS) \cup ToolInputs, CompilerTools,
                (Range(TOOLS) \cup ToolInputs) \ CompilerTools}}

\* The stale artifacts a run may find: none, a script or a link at every tool's
\* path, or scripts at the compilers' paths and links at the others'.
StaleChoices(tools) ==
    LET all == Range(ToolList(tools)) IN
    {[scripts |-> {}, links |-> {}], [scripts |-> all, links |-> {}],
     [scripts |-> {}, links |-> all],
     [scripts |-> all \cap CompilerTools, links |-> all \ CompilerTools]}

StaleScript == RegularFile(NewFileMode, "#!/bin/sh\nexit 1\n")

StaleLink == Symlink("/nonexistent")

\* ------------------------------------------------------------------- state

VARIABLES
    argv,         \* the command line: arch, tools, absolute, symlinks
    config,       \* the argparse Namespace wrap() works on
    files,        \* the artifacts under bin/, by file name
    path_bin,     \* the executable names in the search path's directory
    pc,           \* where the program is
    idx,          \* the position of wrap()'s loop in the tool list
    frame,        \* wrap_tool's local variables
    raised,       \* the exception that ended the run, "" if none
    stdout,       \* the lines printed
    run,          \* 1 for the first run, 2 for the run repeated on its result
    start_files,  \* files when the current run started
    first_files,  \* files when the first run ended
    created       \* the file names the current run created an artifact at

vars == <<argv, config, files, path_bin, pc, idx, frame, raised, stdout, run,
          start_files, first_files, created>>

\* arg keeps the tool name wrap_tool was called with: the code reassigns tool.
NoFrame == [arg |-> "", tool |-> "", filename |-> "", executable |-> PyNone,
            flags_var |-> PyNone, flags |-> "", warning |-> ""]

\* parse_args(): prefix and arch_info are not attributes yet.
Namespace(a) == [arch |-> a.arch, tools |-> a.tools, absolute |-> a.absolute,
                 symlinks |-> a.symlinks, prefix |-> "", arch_info |-> NoAttr]

Init ==
    /\ argv \in [arch : ArchInputs, tools : ToolLists, absolute : BOOLEAN,
                 symlinks : BOOLEAN]
    /\ config = Namespace(argv)
    /\ \E inst \in ToolSubsets(argv.tools) :
           path_bin = {"x86_64-linux-gnu-" \o t : t \in inst}
    /\ \E stale \in StaleChoices(argv.tools) :
           files = [f \in {Filename(argv.arch, t) : t \in stale.scripts \cup stale.links}
                      |-> IF f \in {Filename(argv.arch, t) : t \in stale.scripts}
                          THEN StaleScript ELSE StaleLink]
    /\ pc = "wrap"
    /\ idx = 0
    /\ frame = NoFrame
    /\ raised = ""
    /\ stdout = <<>>
    /\ run = 1
    /\ start_files = files
    /\ first_files = files
    /\ created = {}

\* ------------------------------------------------------------------ actions

\* wrap(), up to its loop.
Wrap ==
    /\ pc = "wrap"
    /\ LET arch == apply_fixups(config.arch, ARCH_FIXUPS) IN
       /\ config' = [config EXCEPT !.prefix = config.arch, !.arch = arch,
                                   !.arch_info = ResolveArch(arch)]
       /\ stdout' = IF ResolveArch(arch) = NoAttr
                    THEN Append(stdout, "Arch " \o arch \o " not found")
                    ELSE stdout
    /\ pc' = "loop"
    /\ idx' = 1
    /\ UNCHANGED <<argv, files, path_bin, frame, raised, run, start_files,
                   first_files, created>>

\* The loop calls wrap_tool for the next tool: its first three statements.
\* config.arch_info raises AttributeError when the attribute was never set.
EnterWrapTool ==
    /\ pc = "loop"
    /\ idx <= Len(ToolList(config.tools))
    /\ LET tool == ToolList(config.tools)[idx] IN
       IF config.arch_info = NoAttr
       THEN /\ raised' = "AttributeError"
            /\ pc' = "raised"
            /\ frame' = [NoFrame EXCEPT !.arg = tool, !.tool = tool,
                                        !.filename = Filename(config.prefix, tool)]
       ELSE /\ frame' = [NoFrame EXCEPT
                            !.arg = tool,
                            !.filename = Filename(config.prefix, tool),
                            !.executable = PyStr(Executable(config.arch_info, tool)),
                            !.tool = apply_fixups(tool, TOOL_FIXUPS)]
            /\ pc' = "remove"
            /\ UNCHANGED raised
    /\ UNCHANGED <<argv, config, files, path_bin, idx, stdout, run, start_files,
                   first_files, created>>

\* The loop is over: wrap() and main() return.
LoopEnd ==
    /\ pc = "loop"
    /\ idx > Len(ToolList(config.tools))
    /\ pc' = "done"
    /\ UNCHANGED <<argv, config, files, path_bin, idx, frame, raised, stdout, run,
                   start_files, first_files, created>>

\* The try statement around os.remove(filename).
Remove ==
    /\ pc = "remove"
    /\ files' = os_remove(files, frame.filename)
    /\ IF RemoveFallsThrough(frame.filename \in DOMAIN files)
       THEN pc' = "blacklist" /\ idx' = idx
       ELSE pc' = "loop" /\ idx' = idx + 1
    /\ UNCHANGED <<argv, config, path_bin, frame, raised, stdout, run, start_files,
                   first_files, created>>

\* if tool in BLACKLIST: return
BlacklistSkip ==
    /\ pc = "blacklist"
    /\ frame.tool \in BLACKLIST
    /\ pc' = "loop"
    /\ idx' = idx + 1
    /\ UNCHANGED <<argv, config, files, path_bin, frame, raised, stdout, run,
                   start_files, first_files, created>>

\* flags_var, flags and warning.
Classify ==
    /\ pc = "blacklist"
    /\ frame.tool \notin BLACKLIST
    /\ LET flags_var == FLAGS_INFO_get(frame.tool)
           r == ResolveFlags(flags_var, config.arch_info)
       IN  IF r.raised # ""
           THEN /\ raised' = r.raised
                /\ pc' = "raised"
                /\ frame' = [frame EXCEPT !.flags_var = flags_var]
           ELSE /\ frame' = [frame EXCEPT !.flags_var = flags_var,
                                          !.flags = r.flags,
                                          !.warning = WarningLine(flags_var, frame.tool)]
                /\ pc' = "lookup"
                /\ UNCHANGED raised
    /\ UNCHANGED <<argv, config, files, path_bin, idx, stdout, run, start_files,
                   first_files, created>>

\* if config.absolute or config.symlinks: executable = shutil.which(executable)
Lookup ==
    /\ pc = "lookup"
    /\ frame' = IF config.absolute \/ config.symlinks
                THEN [frame EXCEPT !.executable = which(frame.executable.s, path_bin)]
                ELSE frame
    /\ pc' = "emit"
    /\ UNCHANGED <<argv, config, files, path_bin, idx, raised, stdout, run,
                   start_files, first_files, created>>

\* os.symlink(executable, filename); return
EmitSymlink ==
    /\ pc = "emit"
    /\ UseSymlink(config.symlinks, frame.flags, frame.flags_var)
    /\ frame.executable # PyNone
    /\ frame.filename \notin DOMAIN files
    /\ files' = Put(files, frame.filename, Symlink(frame.executable.s))
    /\ created' = created \cup {frame.filename}
    /\ pc' = "loop"
    /\ idx' = idx + 1
    /\ UNCHANGED <<argv, config, path_bin, frame, raised, stdout, run, start_files,
                   first_files>>

\* os.symlink raises: TypeError for a source of None, FileExistsError for a file
\* name that exists.
SymlinkRaises ==
    /\ pc = "emit"
    /\ UseSymlink(config.symlinks, frame.flags, frame.flags_var)
    /\ frame.executable = PyNone \/ frame.filename \in DOMAIN files
    /\ raised' = IF frame.executable = PyNone THEN "TypeError" ELSE "FileExistsError"
    /\ pc' = "raised"
    /\ UNCHANGED <<argv, config, files, path_bin, idx, frame, stdout, run,
                   start_files, first_files, created>>

\* open(filename, 'w'), os.chmod and script.write: a file name that is a symbolic
\* link is written through, and stays the link it was.
EmitScript ==
    /\ pc = "emit"
    /\ ~UseSymlink(config.symlinks, frame.flags, frame.flags_var)
    /\ files' = IF frame.filename \in DOMAIN files /\ files[frame.filename].kind = "symlink"
                THEN files
                ELSE Put(files, frame.filename,
                         RegularFile((IF frame.filename \in DOMAIN files
                                      THEN files[frame.filename].mode
                                      ELSE NewFileMode) \cup ExecBits,
                                     ScriptText(frame.warning, frame.executable,
                                                frame.flags)))
    /\ created' = created \cup {frame.filename}
    /\ pc' = "loop"
    /\ idx' = idx + 1
    /\ UNCHANGED <<argv, config, path_bin, frame, raised, stdout, run, start_files,
                   first_files>>

\* The generator is run again with the same command line.
Rerun ==
    /\ pc \in {"done", "raised"}
    /\ run = 1
    /\ run' = 2
    /\ first_files' = files
    /\ start_files' = files
    /\ created' = {}
    /\ config' = Namespace(argv)
    /\ pc' = "wrap"
    /\ idx' = 0
    /\ frame' = NoFrame
    /\ raised' = ""
    /\ stdout' = <<>>
    /\ UNCHANGED <<argv, files, path_bin>>

Next ==
    \/ Wrap
    \/ EnterWrapTool
    \/ LoopEnd
    \/ Remove
    \/ BlacklistSkip
    \/ Classify
    \/ Lookup
    \/ EmitSymlink
    \/ SymlinkRaises
    \/ EmitScript
    \/ Rerun

Spec == Init /\ [][Next]_vars

\* ------------------------------------------- wrap_tool called on its own

\* The arch_info a caller of wrap_tool may hand it: an entry of ARCHES, and an
\* entry that names the wrapped toolchain and no flag set.
ArchInfoInputs == {ARCHES["i386-linux-gnu"], [wraps |-> "x86_64-linux-gnu"]}

\* wrap()'s loop over a config whose prefix and arch_info the caller has set.
InitWrapTool ==
    /\ argv \in [arch : {"i386-linux-gnu"}, tools : ToolLists \ {<<>>},
                 absolute : BOOLEAN, symlinks : BOOLEAN]
    /\ \E info \in ArchInfoInputs :
           config = [Namespace(argv) EXCEPT !.prefix = argv.arch, !.arch_info = info]
    /\ \E inst \in ToolSubsets(argv.tools) :
           path_bin = {"x86_64-linux-gnu-" \o t : t \in inst}
    /\ \E stale \in StaleChoices(argv.tools) :
           files = [f \in {Filename(argv.arch, t) : t \in stale.scripts \cup stale.links}
                      |-> IF f \in {Filename(argv.arch, t) : t \in stale.scripts}
                          THEN StaleScript ELSE StaleLink]
    /\ pc = "loop"
    /\ idx = 1
    /\ frame = NoFrame
    /\ raised = ""
    /\ stdout = <<>>
    /\ run = 1
    /\ start_files = files
    /\ first_files = files
    /\ created = {}

NextWrapTool ==
    \/ EnterWrapTool
    \/ LoopEnd
    \/ Remove
    \/ BlacklistSkip
    \/ Classify
    \/ Lookup
    \/ EmitSymlink
    \/ SymlinkRaises
    \/ EmitScript

SpecWrapTool == InitWrapTool /\ [][NextWrapTool]_vars

\* ------------------------------------------------- what the claims speak of

\* The requested architecture has an entry in ARCHES after ARCH_FIXUPS.
ArchResolves == apply_fixups(argv.arch, ARCH_FIXUPS) \in DOMAIN ARCHES

\* The tools of the run, as wrap()'s loop sees them.
RunTools == ToolList(argv.tools)

\* The name the classification and the blacklist see for a tool.
Canonical(tool) == apply_fixups(tool, TOOL_FIXUPS)

\* wrap_tool has returned (not raised) for the tool frame.arg.
Returned == pc \in {"loop", "done"} /\ idx > 1 /\ frame.arg # ""

\* The tools wrap_tool has returned for, by position.
Processed == {j \in 1..Len(RunTools) : j < idx /\ pc \notin {"wrap"}}

SafeNoFlags(tool) == FLAGS_INFO_get(Canonical(tool)) = PyStr("")

SafeNamedFlags(tool) ==
    /\ FLAGS_INFO_get(Canonical(tool)) # PyNone
    /\ FLAGS_INFO_get(Canonical(tool)) # PyStr("")

Unknown(tool) == FLAGS_INFO_get(Canonical(tool)) = PyNone

RECURSIVE SplitLines(_)
\* The lines of a text, each without its newline.
SplitLines(text) ==
    LET ends == {i \in 1..Len(text) : Char(text, i) = "\n"} IN
    IF text = "" THEN <<>>
    ELSE IF ends = {} THEN <<text>>
    ELSE <<SubSeq(text, 1, Min(ends) - 1)>>
             \o SplitLines(SubSeq(text, Min(ends) + 1, Len(text)))

IsScript(f) == f \in DOMAIN files /\ files[f].kind = "file"

IsSymlink(f) == f \in DOMAIN files /\ files[f].kind = "symlink"

\* A dash followed by one or more digits and dots.
IsVersionSuffix(v) ==
    Len(v) >= 2 /\ Char(v, 1) = "-" /\ \A i \in 2..Len(v) : Char(v, i) \in DigitOrDot

\* ------------------------------------------------------------------- claims

\* C1: when the requested architecture has no entry in the table after the
\* fixups, the run never creates, changes or removes an artifact, never gets
\* past the first tool, never ends normally, and where it ends it has printed
\* the "not found" line and raised (the AttributeError of the first wrap_tool).
C1_UnresolvedArchCreatesNothing ==
    ~ArchResolves =>
        /\ files = start_files
        /\ created = {}
        /\ pc \in {"wrap", "loop", "raised"}
        /\ pc = "loop" => (idx = 1 /\ Len(RunTools) >= 1
                           /\ stdout = <<"Arch armv7a-linux-gnueabihf not found">>)
        /\ pc = "raised" => (raised = "AttributeError" /\ idx = 1
                             /\ stdout = <<"Arch armv7a-linux-gnueabihf not found">>)

\* C1's case: the second run for an unknown architecture has failed too, with
\* symlink mode on and the stale artifacts still in place.
C1_Witness ==
    /\ ~ArchResolves
    /\ pc = "raised"
    /\ run = 2
    /\ argv.symlinks
    /\ Len(argv.tools) = 2
    /\ files # <<>>

\* C3: in a run with a resolved architecture, no artifact exists at the wrapper
\* path of a processed tool whose canonical name is blacklisted.
C3_BlacklistedNeverWrapped ==
    config.arch_info # NoAttr =>
        \A j \in Processed :
            Canonical(RunTools[j]) \in BLACKLIST =>
                Filename(argv.arch, RunTools[j]) \notin DOMAIN files

\* C3's case: pkg-config was requested, a stale artifact was at its path when
\* the run started, and the tool has been processed.
C3_Witness ==
    /\ Returned
    /\ argv.tools # <<>>
    /\ frame.arg = "pkg-config"
    /\ frame.filename \in DOMAIN start_files
    /\ frame.filename \notin DOMAIN files

\* C8: when the run repeated with the same command line ends, the artifacts are
\* those the first run left: the same paths, kinds, contents and link targets.
C8_SecondRunChangesNothing ==
    (run = 2 /\ pc \in {"done", "raised"}) => files = first_files

\* C8's case: the second run is over, the first started from stale artifacts,
\* and the result holds a link and a script made by the generator.
C8_Witness ==
    /\ run = 2
    /\ pc = "done"
    /\ first_files = files
    /\ created # {}
    /\ \E f \in DOMAIN files : files[f].kind = "symlink" /\ files[f] # StaleLink
    /\ \E f \in DOMAIN files : files[f].kind = "file" /\ files[f] # StaleScript

\* C9: in a run with a resolved architecture nothing is at the tool's wrapper
\* path from the removal until the blacklist test has passed and an artifact is
\* created, and at the path of a processed tool there is nothing or an artifact
\* this run created.
C9_RemovedBeforeSkipOrCreate ==
    config.arch_info # NoAttr =>
        /\ pc \in {"blacklist", "lookup", "emit"} => frame.filename \notin DOMAIN files
        /\ \A j \in Processed :
              \/ Filename(argv.arch, RunTools[j]) \notin DOMAIN files
              \/ Filename(argv.arch, RunTools[j]) \in created

\* C9's case: a stale link was at the path when the run started, and the tool
\* was processed: a script of this run is there now.
C9_Witness ==
    /\ Returned
    /\ frame.filename \in DOMAIN start_files
    /\ start_files[frame.filename] = StaleLink
    /\ frame.filename \in created
    /\ IsScript(frame.filename)

\* The search-path lookup of the current tool was made and found nothing.
LookupFailed ==
    /\ frame.warning # ""
    /\ pc # "lookup"
    /\ config.absolute \/ config.symlinks
    /\ frame.executable = PyNone

\* C2: in absolute or symlink mode, a tool whose lookup failed ends in an error
\* (wrap_tool raises) and no artifact is at its wrapper path.
C2_LookupFailureIsError ==
    (LookupFailed /\ pc # "emit") =>
        (pc = "raised" /\ frame.filename \notin DOMAIN files)

\* C4: with symlink mode on, a processed tool that is not blacklisted and is
\* classified SafeNoFlags has a symbolic link at its wrapper path whose target
\* is the path the lookup found for <wraps>-<tool>; a tool classified
\* SafeNamedFlags or Unknown has a script there.  Where a link would be made
\* and the lookup found nothing, wrap_tool raises and leaves nothing at the path.
C4_SymlinkOnlyForSafeNoFlags ==
    (config.symlinks /\ config.arch_info # NoAttr) =>
        /\ (Returned /\ Canonical(frame.arg) \notin BLACKLIST) =>
              IF SafeNoFlags(frame.arg)
              THEN /\ IsSymlink(frame.filename)
                   /\ files[frame.filename].target
                        = "/usr/bin/x86_64-linux-gnu-" \o frame.arg
                   /\ "x86_64-linux-gnu-" \o frame.arg \in path_bin
              ELSE IsScript(frame.filename)
        /\ \A j \in Processed :
              IsSymlink(Filename(argv.arch, RunTools[j])) => SafeNoFlags(RunTools[j])
        /\ (pc = "raised" /\ raised = "TypeError") =>
              /\ SafeNoFlags(frame.arg)
              /\ "x86_64-linux-gnu-" \o frame.arg \notin path_bin
              /\ frame.filename \notin DOMAIN files

\* C4's case: in one run with symlink mode, gcc-ar got a link to the executable
\* found for it, and gcc (flag-bearing) and gold (unknown) got scripts.
C4_Witness ==
    /\ argv.symlinks
    /\ pc = "done"
    /\ argv.tools = <<>>
    /\ IsSymlink("bin/i686-pc-linux-gnu-gcc-ar")
    /\ files["bin/i686-pc-linux-gnu-gcc-ar"].target = "/usr/bin/x86_64-linux-gnu-gcc-ar"
    /\ IsScript("bin/i686-pc-linux-gnu-gcc")
    /\ IsScript("bin/i686-pc-linux-gnu-gold")

\* C5: a tool name that ends in a version suffix gets the canonical name of the
\* name without the suffix.
C5_VersionSuffixStripped ==
    (config.arch_info # NoAttr /\ frame.arg # "") =>
        \A k \in 2..Len(frame.arg) :
            IsVersionSuffix(SubSeq(frame.arg, k, Len(frame.arg))) =>
                frame.tool = Canonical(SubSeq(frame.arg, 1, k - 1))

C7_ReferenceFromOriginalName ==
    (config.arch_info # NoAttr /\ frame.arg # "") =>
        /\ frame.filename = "bin/" \o argv.arch \o "-" \o frame.arg
        /\ pc \in {"remove", "blacklist", "lookup"} =>
              frame.executable = PyStr(config.arch_info.wraps \o "-" \o frame.arg)
        /\ (pc = "emit" /\ frame.executable # PyNone) =>
              EndsWith(frame.executable.s, "x86_64-linux-gnu-" \o frame.arg)
        /\ pc \in {"lookup", "emit"} =>
              frame.flags_var = FLAGS_INFO_get(Canonical(frame.arg))
        /\ Returned =>
              (frame.filename \in DOMAIN files <=> Canonical(frame.arg) \notin BLACKLIST)
        /\ (Returned /\ ~config.absolute /\ ~config.symlinks
                /\ Canonical(frame.arg) \notin BLACKLIST) =>
              /\ IsScript(frame.filename)
              /\ SplitLines(files[frame.filename].data)[3]
                   = "exec x86_64-linux-gnu-" \o frame.arg \o " " \o frame.flags
                         \o " \"$@\""
        /\ frame.arg = "gcc-ar" => frame.tool = "ar"

\* C7's case: gcc-ar is classified as ar and its script runs ...-gcc-ar.
C7_Witness ==
    /\ Returned
    /\ frame.arg = "gcc-ar"
    /\ frame.tool = "ar"
    /\ IsScript(frame.filename)
    /\ files[frame.filename].mode = {"ur", "uw", "ux", "gr", "gx", "or", "ox"}
    /\ files[frame.filename].data =
         "#!/bin/sh\n# tool \"ar\" is believed to be safe\nexec x86_64-linux-gnu-gcc-ar  \"$@\"\n"

====
